---- MODULE Spec2Model ----
(***************************************************************************)
(* Model of pixie/overlay.py: the payload that a PIXIE C-extension carries *)
(* (create_base_payload, add_variant), the loader that runs at module      *)
(* initialisation (bootstrap, main) and the specialize closure it exposes. *)
(*                                                                         *)
(* A module name is a pair <<base, k>>: the base library name followed by  *)
(* k copies of the suffix "_pixie_specialized".  Python values are tagged  *)
(* records [kind, v], so that a str, a ctypes type, a function pointer and *)
(* a dict are different values.  A dict that Python iterates in insertion  *)
(* order is a sequence.                                                    *)
(***************************************************************************)
EXTENDS Integers, Sequences, FiniteSets, TLC

VARIABLES
    disk,         \* output_dir: module name -> artifact file, or NoFile
    nextUuid,     \* next fresh uuid a generic build is stamped with
    host,         \* CPU features of the machine the process runs on
    sys_modules,  \* sys.modules of the process: modules imported so far
    dunder,       \* obj.__PIXIE__ of each module: the payload object it refers to
    heap,         \* the payload dict object owned by each module's initialisation
    info,         \* per module: what its last run of main did
    last,         \* the last call of the specialize closure
    made,         \* log of add_variant calls: arguments and what came back
    tpc,          \* per thread: position inside main
    tloc          \* per thread: main's local variables

vars == <<disk, nextUuid, host, sys_modules, dunder, heap, info, last, made, tpc, tloc>>

-----------------------------------------------------------------------------
(* Bounds *)

MaxDepth == 2
MaxUuid == 2
MaxCalls == 2
NThreads == 2

-----------------------------------------------------------------------------
(* Names and values *)

Bases == {"function_library", "optimise_library"}
Names == Bases \X (0..MaxDepth)
Features == {"avx2", "avx512f"}
Threads == 1..NThreads

\* The machines a process may run on: a baseline-only CPU and one with every
\* feature
Hosts == {{}, Features}

NoUuid == 0

None == [kind |-> "None"]
NoFile == [kind |-> "NoFile"]
\* a module that has no __PIXIE__ attribute refers to no payload
NoAttr == <<"", 0>>
Str(s) == [kind |-> "str", v |-> s]
Dict(s) == [kind |-> "dict", v |-> s]
Tuple(s) == [kind |-> "tuple", v |-> s]

\* f"{obj.__name__}_pixie_specialized"
sbs_name(n) == <<n[1], n[2] + 1>>

Exists(n) == n \in Names /\ disk[n] # NoFile

-----------------------------------------------------------------------------
(* Building a payload *)

\* add_variant without the default of lines 159-160
add_variant_keeps_none(ctypes_func_string, raw_symbol, baseline, feature_variants) ==
    [ctypes_cfunctype |-> ctypes_func_string,
     symbol |-> raw_symbol,
     module |-> None,
     source_file |-> None,
     address |-> None,
     cfunc |-> None,
     feature_variants |-> feature_variants,
     baseline_feature |-> baseline,
     metadata |-> None]

add_variant(ctypes_func_string, raw_symbol, baseline, feature_variants) ==
    LET _feature_variants == IF feature_variants # None THEN feature_variants ELSE Dict(<<>>)
    IN  [ctypes_cfunctype |-> ctypes_func_string,
         symbol |-> raw_symbol,
         module |-> None,
         source_file |-> None,
         address |-> None,
         cfunc |-> None,
         feature_variants |-> _feature_variants,
         baseline_feature |-> baseline,
         metadata |-> None]

create_base_payload ==
    [symbols |-> <<>>,
     c_header |-> <<"<write it>">>,
     linkage |-> None,
     bitcode |-> None,
     specialize |-> None,
     uuid |-> NoUuid,
     is_specialized |-> FALSE]

\* The export tables of the two libraries: one record per (python name,
\* signature), with the compiled symbol and the per-feature symbols.
ExportTable(base) ==
    IF base = "function_library"
    THEN << [pysym |-> "function", sig |-> "void(i64*)", symbol |-> "_Z8functionPi",
             variants |-> << [variant |-> "avx2", symbol |-> "_Z8functionPi.avx2"] >>],
            [pysym |-> "function", sig |-> "void(i32*)", symbol |-> "_Z8functionPj",
             variants |-> << >>] >>
    ELSE << [pysym |-> "optimise", sig |-> "void(void*, i64*, i64*)",
             symbol |-> "_Z9optimiserPFlvEPlS1_", variants |-> << >>] >>

TableSymbols(table) ==
    {table[i].symbol : i \in DOMAIN table}
      \cup UNION {{table[i].variants[j].symbol : j \in DOMAIN table[i].variants} : i \in DOMAIN table}

\* PIXIECompiler(...).compile(): the artifact written to output_dir.  Its
\* payload is the base payload with the uuid and one add_variant record per
\* exported (name, signature); its image exports the symbols of the table
\* except those in `missing` (a malformed image).
PIXIECompiler_compile(library_name, table, uuid, bitcode, missing) ==
    [payload |-> [create_base_payload EXCEPT
                    !.uuid = uuid,
                    !.symbols = [i \in DOMAIN table |->
                        [pysym |-> table[i].pysym,
                         sig |-> table[i].sig,
                         data |-> add_variant(
                            Str(table[i].sig), Str(table[i].symbol), Str("baseline"),
                            IF table[i].variants = << >> THEN None
                            ELSE Dict([j \in DOMAIN table[i].variants |->
                                    [variant |-> table[i].variants[j].variant,
                                     val |-> Str(table[i].variants[j].symbol)]]))]]],
     image |-> [name |-> library_name,
                syms |-> TableSymbols(table) \ missing,
                bitcode |-> bitcode]]

-----------------------------------------------------------------------------
(* The loader: pieces of main *)

Raise(e, d) == [exc |-> e, v |-> d]
Return(d) == [exc |-> "none", v |-> d]

\* getattr(DSO, symbol_name): an attribute name must be a str, and the image
\* must export it.
address_of_symbol(DSO, symbol_name) ==
    IF symbol_name.kind # "str" THEN Raise("TypeError", None)
    ELSE IF symbol_name.v \notin DSO.syms THEN Raise("AttributeError", None)
    ELSE Return([kind |-> "fptr", v |-> <<DSO.name, symbol_name.v>>])

get_bitcode(DSO, obj) == [kind |-> "bytes", v |-> DSO.bitcode]

\* specialize(obj) returns the closure impl, which keeps obj.
specialize(obj) == [kind |-> "closure", v |-> obj]

\* eval handing back a value that is not a str as it is
eval_ctypes_accepts_type(ctypes_str) ==
    IF ctypes_str.kind = "str" THEN Return([kind |-> "CFUNCTYPE", v |-> ctypes_str.v])
    ELSE Return(ctypes_str)

\* eval(ctypes_str, {'ctypes': ctypes}, {}): only a str can be evaluated.
eval_ctypes(ctypes_str) ==
    IF ctypes_str.kind = "str" THEN Return([kind |-> "CFUNCTYPE", v |-> ctypes_str.v])
    ELSE Raise("TypeError", None)

\* ctbinding(ptr): the typed callable
CFunc(ctbinding, ptr) == [kind |-> "cfunc", v |-> <<ctbinding.v, ptr.v>>]

\* ctypes.cast(ct_fptr, ctypes.c_void_p).value
raw_address(ct_fptr) == [kind |-> "int", v |-> ct_fptr.v]

\* lines 131-133: the binding string is replaced by the binding type
fix_binding(data) ==
    LET e == eval_ctypes(data.ctypes_cfunctype)
    IN  IF e.exc # "none" THEN Raise(e.exc, data)
        ELSE Return([data EXCEPT !.ctypes_cfunctype = e.v])

\* lines 134-136 without line 137: the address is stored, no cfunc is made
bind_baseline_address_only(data, DSO, ctbinding) ==
    LET a == address_of_symbol(DSO, data.symbol)
    IN  IF a.exc # "none" THEN Raise(a.exc, data)
        ELSE Return([data EXCEPT !.address = raw_address(a.v)])

\* lines 134-137: the baseline symbol is looked up and bound
bind_baseline(data, DSO, ctbinding) ==
    LET a == address_of_symbol(DSO, data.symbol)
    IN  IF a.exc # "none" THEN Raise(a.exc, data)
        ELSE Return([data EXCEPT !.address = raw_address(a.v),
                                 !.cfunc = CFunc(ctbinding, a.v)])

\* the loop of lines 141-147 never entered: tmp stays empty
bind_variants_skipped(variants, DSO, ctbinding, i, tmp) == Return(<< >>)

\* lines 141-147: one vdict per feature variant, in the dict's order
RECURSIVE bind_variants(_, _, _, _, _)
bind_variants(variants, DSO, ctbinding, i, tmp) ==
    IF i > Len(variants) THEN Return(tmp)
    ELSE LET a == address_of_symbol(DSO, variants[i].val)
         IN  IF a.exc # "none" THEN Raise(a.exc, tmp)
             ELSE bind_variants(variants, DSO, ctbinding, i + 1,
                    Append(tmp, [variant |-> variants[i].variant,
                                 val |-> [kind |-> "vdict",
                                          v |-> [symbol |-> variants[i].val,
                                                 address |-> a.v,
                                                 cfunc |-> CFunc(ctbinding, a.v)]]]))

\* line 148: the variants dict is replaced by the dict of vdicts
set_variants(data, r3) ==
    IF r3.exc # "none" THEN Raise(r3.exc, data)
    ELSE Return([data EXCEPT !.feature_variants = Dict(r3.v)])

\* lines 138-148, reached when the baseline was bound
variants_of(r2, DSO) ==
    IF r2.exc # "none" THEN r2
    ELSE set_variants(r2.v, bind_variants(r2.v.feature_variants.v, DSO,
                                          r2.v.ctypes_cfunctype, 1, << >>))

\* lines 134-148, reached when the binding string was evaluated
baseline_of(r1, DSO) ==
    IF r1.exc # "none" THEN r1
    ELSE variants_of(bind_baseline(r1.v, DSO, r1.v.ctypes_cfunctype), DSO)

\* lines 129-148: one (symbol, signature) entry
resolve_entry(data, DSO) == baseline_of(fix_binding(data), DSO)

\* the entry's record after the loop body ran on it, and whether it raised
store_entry(symbols, i, r) == [exc |-> r.exc, v |-> [symbols EXCEPT ![i].data = r.v]]

\* the loop of line 128 leaving after the first entry
more_entries_first_only(symbols, i) == i <= 1 /\ i <= Len(symbols)

\* line 128: the loop goes on while entries are left
more_entries(symbols, i) == i <= Len(symbols)

\* lines 128-148: every entry in order, in place; stops at the first exception
RECURSIVE resolve_from(_, _, _)
resolve_from(rs, DSO, i) ==
    IF rs.exc # "none" \/ ~more_entries(rs.v, i) THEN rs
    ELSE resolve_from(store_entry(rs.v, i, resolve_entry(rs.v[i].data, DSO)), DSO, i + 1)

resolve_symbols(symbols, DSO) == resolve_from(Return(symbols), DSO, 1)

\* the comparison of line 102 left out: any specialized module is taken
uuid_match_always(payload_uuid, specialized_uuid) == TRUE

\* line 102
uuid_match(payload_uuid, specialized_uuid) == payload_uuid = specialized_uuid

\* lines 103-104: obj.__PIXIE__ becomes the specialized module's dict itself
adopt(st, n, sbs) ==
    [st EXCEPT !.dunder[n] = st.dunder[sbs],
               !.heap[st.dunder[sbs]].is_specialized = TRUE]

\* line 153 writing the dict into every module imported so far, as if the
\* attribute lived on an object the modules share
publish_into_all(st, n, symbols, DSO) ==
    [st EXCEPT !.heap[n].symbols = symbols,
               !.heap[n].bitcode = get_bitcode(DSO, n),
               !.heap[n].specialize = specialize(n),
               !.dunder = [m \in Names |-> IF m = n \/ m \in st.sys_modules THEN n
                                           ELSE st.dunder[m]]]

\* lines 149-153: the resolved dict is completed and written into the module
publish(st, n, symbols, DSO) ==
    [st EXCEPT !.heap[n].symbols = symbols,
               !.heap[n].bitcode = get_bitcode(DSO, n),
               !.heap[n].specialize = specialize(n),
               !.dunder[n] = n]

\* steps: the statements of main that ran, in the order they ran
NoInfo == [state |-> "Unloaded", cand |-> "absent", candUuid |-> NoUuid,
           warns |-> 0, exc |-> "none", steps |-> << >>]

\* lines 100-101
payload_uuid(st, n) == st.heap[n].uuid

\* line 101 reading the loading module's payload instead of the specialized
\* module's dict
specialized_uuid_of_payload(st, n) == st.heap[n].uuid

specialized_uuid(st, n) == st.heap[st.dunder[sbs_name(n)]].uuid

\* what main saw of the specialized module: lines 94-102 ran, and line 116
\* when the uuids differ
Candidate(st, n, found) ==
    [NoInfo EXCEPT !.cand = IF found THEN "ok" ELSE "absent",
                   !.candUuid = IF found THEN specialized_uuid(st, n) ELSE NoUuid,
                   !.warns = IF found /\ ~uuid_match(payload_uuid(st, n),
                                                      specialized_uuid(st, n))
                             THEN 1 ELSE 0,
                   !.steps = <<"import_module">>
                               \o (IF found THEN <<"uuid_check">> ELSE << >>)
                               \o (IF found /\ ~uuid_match(payload_uuid(st, n),
                                                            specialized_uuid(st, n))
                                   THEN <<"warn">> ELSE << >>)]

\* lines 119-148 moved before line 94: the module's own image is opened and
\* its payload resolved before the specialized module is looked for
specialized_path_resolves_first(st, n) ==
    Return([adopt([st EXCEPT !.heap[n].symbols = resolve_symbols(@, disk[n].image).v],
                  n, sbs_name(n))
              EXCEPT !.info[n] =
                [Candidate(st, n, TRUE) EXCEPT
                    !.state = "SpecializedLoaded",
                    !.steps = <<"CDLL", "resolve">> \o @ \o <<"adopt", "return">>]])

\* lines 98-108: the uuids match, the specialized dict is taken over
specialized_path(st, n) ==
    Return([adopt(st, n, sbs_name(n)) EXCEPT !.info[n] =
              [Candidate(st, n, TRUE) EXCEPT !.state = "SpecializedLoaded",
                                             !.steps = @ \o <<"adopt", "return">>]])

\* line 153 moved before the loop: the dict is written into the module first
generic_path_publish_first(st, n, found, DSO, r) ==
    [exc |-> r.exc,
     v |-> [publish(st, n, r.v, DSO) EXCEPT !.info[n] =
              [Candidate(st, n, found) EXCEPT
                 !.state = IF r.exc # "none" THEN "Aborted"
                           ELSE IF found THEN "RevertedToGeneric" ELSE "Resolved",
                 !.exc = r.exc,
                 !.steps = @ \o <<"CDLL", "publish", "resolve">>]]]

\* lines 109-153: (a warning when a specialized module was found, then) the
\* module's own payload is resolved against its own image; r is the outcome
\* of the loop of lines 128-148.
generic_path(st, n, found, DSO, r) ==
    IF r.exc # "none"
    THEN Raise(r.exc, [st EXCEPT !.heap[n].symbols = r.v,
                                 !.info[n] = [Candidate(st, n, found) EXCEPT
                                                !.state = "Aborted", !.exc = r.exc,
                                                !.steps = @ \o <<"CDLL", "resolve">>]])
    ELSE Return([publish(st, n, r.v, DSO) EXCEPT !.info[n] =
                   [Candidate(st, n, found) EXCEPT
                      !.state = IF found THEN "RevertedToGeneric" ELSE "Resolved",
                      !.steps = @ \o <<"CDLL", "resolve", "publish">>]])

\* an exception of the import other than ImportError leaves main
import_raised(imp, n) ==
    Raise(imp.exc, [imp.v EXCEPT !.info[n] =
            [NoInfo EXCEPT !.state = "Aborted", !.cand = "raise", !.exc = imp.exc,
                           !.steps = <<"import_module">>]])

\* main(PIXIE_payload, obj), with imp the outcome of
\* importlib.import_module(sbs_name) at line 94: the process state it leaves
\* and the exception it raised, if any.  Only ImportError is caught.
main(imp, n) ==
    IF imp.exc \notin {"none", "ImportError"} THEN import_raised(imp, n)
    ELSE IF imp.exc = "none"
            /\ uuid_match(payload_uuid(imp.v, n), specialized_uuid(imp.v, n))
    THEN specialized_path(imp.v, n)
    ELSE generic_path(imp.v, n, imp.exc = "none", disk[n].image,
                      resolve_symbols(imp.v.heap[n].symbols, disk[n].image))

\* bootstrap(obj): main(payload, obj), payload being the module's own dict
bootstrap(imp, n) == main([imp EXCEPT !.v.heap[n] = disk[n].payload], n)

\* the module enters sys.modules only when its initialisation returns
entered(r, n) ==
    IF r.exc # "none" THEN r
    ELSE Return([r.v EXCEPT !.sys_modules = @ \cup {n}])

\* The initialisation of module n, run by its first import
init_module(imp, n) == entered(bootstrap(imp, n), n)

\* A module the import system initialises: on disk and not imported yet
Initialises(st, n) == n \notin st.sys_modules /\ Exists(n)

\* The first name among n, sbs_name(n), ... that import does not initialise:
\* the nested imports of main stop there.
ChainEnd(st, n) ==
    CHOOSE d \in n[2]..(MaxDepth + 1) :
        /\ ~Initialises(st, <<n[1], d>>)
        /\ \A e \in n[2]..(d - 1) : Initialises(st, <<n[1], e>>)

\* The modules <<base, d>> down to <<base, low>> initialised innermost first,
\* each main receiving the outcome of the import it made.
RECURSIVE unwind(_, _, _, _)
unwind(imp, base, d, low) ==
    IF d < low THEN imp
    ELSE unwind(init_module(imp, <<base, d>>), base, d - 1, low)

\* importlib.import_module(n): a module in sys.modules is returned as it is, a
\* module that is not on disk raises ImportError, any other is initialised,
\* which imports its specialized counterpart first.
import_module(st, n) ==
    unwind(IF <<n[1], ChainEnd(st, n)>> \in st.sys_modules THEN Return(st)
           ELSE Raise("ImportError", st),
           n[1], ChainEnd(st, n) - 1, n[2])

-----------------------------------------------------------------------------
(* The specialize closure *)

\* llvm.get_host_cpu_name()
get_host_cpu_name == "host-cpu-name"

\* the inner loop of line 57 taking the first signature of a name only: a
\* second overload of the same python name is not added
export_config_first_overload(symbols) ==
    LET firsts == SelectSeq([i \in DOMAIN symbols |-> i],
                    LAMBDA i : \A k \in 1..(i - 1) : symbols[k].pysym # symbols[i].pysym)
    IN  [x \in DOMAIN firsts |->
            [pysym |-> symbols[firsts[x]].pysym,
             sig |-> symbols[firsts[x]].sig,
             symbol |-> symbols[firsts[x]].data.symbol.v,
             variants |-> << >>]]

\* lines 56-60: one add_symbol per (python name, signature) of the manifest
export_config(symbols) ==
    [i \in DOMAIN symbols |->
        [pysym |-> symbols[i].pysym,
         sig |-> symbols[i].sig,
         symbol |-> symbols[i].data.symbol.v,
         variants |-> << >>]]

\* impl stamping the new artifact with a uuid of its own
impl_fresh_uuid(obj, baseline_cpu, baseline_features) ==
    [library_name |-> sbs_name(obj),
     table |-> export_config(heap[dunder[obj]].symbols),
     bitcode |-> heap[dunder[obj]].bitcode.v,
     baseline_cpu |-> IF baseline_cpu = "host" THEN get_host_cpu_name ELSE baseline_cpu,
     baseline_features |-> IF baseline_features = None THEN Tuple(<< >>)
                           ELSE baseline_features,
     uuid |-> nextUuid,
     heap |-> heap]

\* impl marking the loaded manifest as specialized while it compiles
impl_marks_loaded(obj, baseline_cpu, baseline_features) ==
    [library_name |-> sbs_name(obj),
     table |-> export_config(heap[dunder[obj]].symbols),
     bitcode |-> heap[dunder[obj]].bitcode.v,
     baseline_cpu |-> IF baseline_cpu = "host" THEN get_host_cpu_name ELSE baseline_cpu,
     baseline_features |-> IF baseline_features = None THEN Tuple(<< >>)
                           ELSE baseline_features,
     uuid |-> heap[dunder[obj]].uuid,
     heap |-> [heap EXCEPT ![dunder[obj]].is_specialized = TRUE]]

\* lines 39-42 asking the host for its features when none are given
impl_features_of_host(obj, baseline_cpu, baseline_features) ==
    [library_name |-> sbs_name(obj),
     table |-> export_config(heap[dunder[obj]].symbols),
     bitcode |-> heap[dunder[obj]].bitcode.v,
     baseline_cpu |-> IF baseline_cpu = "host" THEN get_host_cpu_name ELSE baseline_cpu,
     baseline_features |-> IF baseline_features = None
                           THEN (IF host = {} THEN Tuple(<< >>)
                                 ELSE Tuple(<<"avx2", "avx512f">>))
                           ELSE baseline_features,
     uuid |-> heap[dunder[obj]].uuid,
     heap |-> heap]

\* impl(baseline_cpu, baseline_features) of specialize(obj): the arguments
\* it constructs PIXIECompiler with, and the heap as the call leaves it
\* (impl only reads obj.__PIXIE__).
impl(obj, baseline_cpu, baseline_features) ==
    LET PIXIE == heap[dunder[obj]]
    IN  [library_name |-> sbs_name(obj),
         table |-> export_config(PIXIE.symbols),
         bitcode |-> PIXIE.bitcode.v,
         baseline_cpu |-> IF baseline_cpu = "host" THEN get_host_cpu_name
                          ELSE baseline_cpu,
         baseline_features |-> IF baseline_features = None THEN Tuple(<< >>)
                               ELSE baseline_features,
         uuid |-> PIXIE.uuid,
         heap |-> heap]

-----------------------------------------------------------------------------
(* Actions *)

NoCall == [op |-> "none"]

Idle == [t \in Threads |-> "idle"]
NoLocals == [t \in Threads |-> None]

FreshProcess ==
    /\ sys_modules = {}
    /\ dunder = [n \in Names |-> NoAttr]
    /\ heap = [n \in Names |-> None]
    /\ info = [n \in Names |-> NoInfo]
    /\ last = NoCall

Init ==
    /\ disk = [n \in Names |-> NoFile]
    /\ nextUuid = 1
    /\ host \in Hosts
    /\ FreshProcess
    /\ made = << >>
    /\ tpc = Idle
    /\ tloc = NoLocals

\* The malformed images a build can leave: none, or one symbol not emitted
Missing(base) == {{}} \cup {{s} : s \in TableSymbols(ExportTable(base))}

\* A generic build of a library: a fresh uuid
BuildGeneric(base, missing) ==
    /\ nextUuid <= MaxUuid
    /\ disk' = [disk EXCEPT ![<<base, 0>>] =
                    PIXIECompiler_compile(<<base, 0>>, ExportTable(base), nextUuid,
                                          base, missing)]
    /\ nextUuid' = nextUuid + 1
    /\ last' = NoCall
    /\ UNCHANGED <<host, sys_modules, dunder, heap, info, made, tpc, tloc>>

ProcessState == [sys_modules |-> sys_modules, dunder |-> dunder, heap |-> heap,
                 info |-> info]

Becomes(st) ==
    /\ sys_modules' = st.sys_modules
    /\ dunder' = st.dunder
    /\ heap' = st.heap
    /\ info' = st.info

\* import n: the first import of the module in this process
Load(n) ==
    /\ n \notin sys_modules
    /\ Exists(n)
    /\ Becomes(import_module(ProcessState, n).v)
    /\ last' = NoCall
    /\ UNCHANGED <<disk, nextUuid, host, made, tpc, tloc>>

\* via.__PIXIE__['specialize'](baseline_cpu, baseline_features); lib.compile()
\* either writes the artifact or raises
Specialize(via, baseline_cpu, baseline_features, ok) ==
    /\ via \in sys_modules
    /\ LET fn == heap[dunder[via]].specialize
           call == impl(fn.v, baseline_cpu, baseline_features)
       IN  /\ call.library_name \in Names
           /\ heap' = call.heap
           /\ disk' = IF ok
                      THEN [disk EXCEPT ![call.library_name] =
                              PIXIECompiler_compile(call.library_name, call.table,
                                                    call.uuid, call.bitcode, {})]
                      ELSE disk
           /\ last' = [op |-> "specialize", via |-> via, obj |-> fn.v,
                       args |-> <<baseline_cpu, baseline_features>>,
                       manifest_uuid |-> heap[dunder[via]].uuid,
                       library_name |-> call.library_name,
                       uuid |-> call.uuid, table |-> call.table,
                       baseline_cpu |-> call.baseline_cpu,
                       baseline_features |-> call.baseline_features,
                       ok |-> ok]
    /\ UNCHANGED <<nextUuid, host, sys_modules, dunder, info, made, tpc, tloc>>

\* The process ends and another starts: nothing loaded
NewProcess ==
    /\ sys_modules # {}
    /\ sys_modules' = {}
    /\ dunder' = [n \in Names |-> NoAttr]
    /\ heap' = [n \in Names |-> None]
    /\ info' = [n \in Names |-> NoInfo]
    /\ last' = NoCall
    /\ UNCHANGED <<disk, nextUuid, host, made, tpc, tloc>>

Cpus == {"host", "skylake"}
FeatureArgs == {None, Tuple(<<"avx2">>)}

\* One library, built, loaded, specialized and reloaded over several processes
Next ==
    \/ \E missing \in Missing("function_library") :
          BuildGeneric("function_library", missing)
    \/ \E n \in Names : Load(n)
    \/ \E via \in Names, cpu \in Cpus, f \in FeatureArgs, ok \in BOOLEAN :
          Specialize(via, cpu, f, ok)
    \/ NewProcess

Spec == Init /\ [][Next]_vars

-----------------------------------------------------------------------------
(* Threads that run main on the same module at the same time.  main takes no
   lock; the threads share the module object and its payload dict.  A step is
   one statement, or a group of statements that touches the shared dict once. *)

\* the specialized artifact an earlier process left for Lib, with uuid u
SpecializedOf(n, u) ==
    PIXIECompiler_compile(sbs_name(n),
        export_config(PIXIECompiler_compile(n, ExportTable(n[1]), u, n[1], {}).payload.symbols),
        u, n[1], {})

\* The library was built (its uuid is MaxUuid); a specialized artifact is
\* absent (u = NoUuid), stale or current; the module's payload exists and no
\* thread has entered main yet.
InitThreads ==
    /\ \E u \in {NoUuid, 1, MaxUuid} :
          disk = [n \in Names |->
                    IF n = <<"function_library", 0>>
                    THEN PIXIECompiler_compile(n, ExportTable(n[1]), MaxUuid, n[1], {})
                    ELSE IF n = <<"function_library", 1>> /\ u # NoUuid
                    THEN SpecializedOf(<<"function_library", 0>>, u)
                    ELSE NoFile]
    /\ nextUuid = MaxUuid + 1
    /\ host \in Hosts
    /\ sys_modules = {}
    /\ dunder = [n \in Names |-> NoAttr]
    /\ heap = [n \in Names |-> IF n = <<"function_library", 0>> THEN disk[n].payload
                               ELSE None]
    /\ info = [n \in Names |-> NoInfo]
    /\ last = NoCall
    /\ made = << >>
    /\ tpc = Idle
    /\ tloc = NoLocals

Locals(i) == [i |-> i, ctypes_str |-> None, ctbinding |-> None, tmp |-> << >>,
              exc |-> "none"]

\* lines 98-117 of thread t on module n, imp being the outcome of its import
T_AfterImport(t, n, imp) ==
    IF imp.exc = "none" /\ uuid_match(payload_uuid(imp.v, n), specialized_uuid(imp.v, n))
    THEN /\ Becomes(adopt(imp.v, n, sbs_name(n)))
         /\ tpc' = [tpc EXCEPT ![t] = "done"]
         /\ tloc' = tloc
    ELSE /\ Becomes(imp.v)
         /\ tpc' = [tpc EXCEPT ![t] = "loop"]
         /\ tloc' = [tloc EXCEPT ![t] = Locals(1)]

\* lines 88-117: the import of the specialized module and the uuid check
T_Enter(t, n) ==
    /\ tpc[t] = "idle"
    /\ T_AfterImport(t, n, import_module(ProcessState, sbs_name(n)))
    /\ UNCHANGED <<disk, nextUuid, host, last, made>>

\* line 128: the head of the loop
T_Loop(t, n) ==
    /\ tpc[t] = "loop"
    /\ tpc' = [tpc EXCEPT ![t] = IF more_entries(heap[n].symbols, tloc[t].i) THEN "read"
                                 ELSE "publish"]
    /\ UNCHANGED <<disk, nextUuid, host, sys_modules, dunder, heap, info, last, made, tloc>>

\* line 131: the binding string is read from the shared record
T_Read(t, n) ==
    /\ tpc[t] = "read"
    /\ tloc' = [tloc EXCEPT ![t].ctypes_str =
                    heap[n].symbols[tloc[t].i].data.ctypes_cfunctype]
    /\ tpc' = [tpc EXCEPT ![t] = "fix"]
    /\ UNCHANGED <<disk, nextUuid, host, sys_modules, dunder, heap, info, last, made>>

\* what a step that may raise does to the thread: e is the outcome, whose
\* value is the record to store in the entry
T_Outcome(t, n, e, pc, locals) ==
    IF e.exc # "none"
    THEN /\ tpc' = [tpc EXCEPT ![t] = "raised"]
         /\ tloc' = [tloc EXCEPT ![t].exc = e.exc]
         /\ heap' = heap
    ELSE /\ tpc' = [tpc EXCEPT ![t] = pc]
         /\ tloc' = [tloc EXCEPT ![t] = locals]
         /\ heap' = [heap EXCEPT ![n].symbols[tloc[t].i].data = e.v]

\* the outcome of lines 132-133 on what line 131 read
T_Evaluated(e, data) ==
    IF e.exc # "none" THEN e ELSE Return([data EXCEPT !.ctypes_cfunctype = e.v])

\* lines 132-133: eval of what was read, and the write of the binding type
T_Fix(t, n) ==
    /\ tpc[t] = "fix"
    /\ T_Outcome(t, n,
          T_Evaluated(eval_ctypes(tloc[t].ctypes_str), heap[n].symbols[tloc[t].i].data),
          "baseline",
          [tloc[t] EXCEPT !.ctbinding = eval_ctypes(tloc[t].ctypes_str).v])
    /\ UNCHANGED <<disk, nextUuid, host, sys_modules, dunder, info, last, made>>

\* lines 134-137: the baseline symbol is looked up and bound
T_Baseline(t, n) ==
    /\ tpc[t] = "baseline"
    /\ T_Outcome(t, n,
          bind_baseline(heap[n].symbols[tloc[t].i].data, disk[n].image, tloc[t].ctbinding),
          "variants", tloc[t])
    /\ UNCHANGED <<disk, nextUuid, host, sys_modules, dunder, info, last, made>>

\* the thread after the inner loop: r is its outcome, the tmp dict
T_Bound(t, r) ==
    IF r.exc # "none"
    THEN /\ tpc' = [tpc EXCEPT ![t] = "raised"]
         /\ tloc' = [tloc EXCEPT ![t].exc = r.exc]
    ELSE /\ tpc' = [tpc EXCEPT ![t] = "store"]
         /\ tloc' = [tloc EXCEPT ![t].tmp = r.v]

\* lines 138-147: the variants dict is read from the shared record and a vdict
\* is made of each of its values
T_Variants(t, n) ==
    /\ tpc[t] = "variants"
    /\ T_Bound(t, bind_variants(heap[n].symbols[tloc[t].i].data.feature_variants.v,
                                disk[n].image, tloc[t].ctbinding, 1, << >>))
    /\ UNCHANGED <<disk, nextUuid, host, sys_modules, dunder, heap, info, last, made>>

\* line 148: tmp replaces the variants dict; the loop moves on
T_Store(t, n) ==
    /\ tpc[t] = "store"
    /\ heap' = [heap EXCEPT ![n].symbols[tloc[t].i].data =
                    set_variants(@, Return(tloc[t].tmp)).v]
    /\ tloc' = [tloc EXCEPT ![t] = Locals(tloc[t].i + 1)]
    /\ tpc' = [tpc EXCEPT ![t] = "loop"]
    /\ UNCHANGED <<disk, nextUuid, host, sys_modules, dunder, info, last, made>>

\* lines 149-153: bitcode and specialize are set and the dict is written into
\* the module
T_Publish(t, n) ==
    /\ tpc[t] = "publish"
    /\ Becomes(publish(ProcessState, n, heap[n].symbols, disk[n].image))
    /\ tpc' = [tpc EXCEPT ![t] = "done"]
    /\ UNCHANGED <<disk, nextUuid, host, last, made, tloc>>

NextThreads ==
    \E t \in Threads :
        \/ T_Enter(t, <<"function_library", 0>>)
        \/ T_Loop(t, <<"function_library", 0>>)
        \/ T_Read(t, <<"function_library", 0>>)
        \/ T_Fix(t, <<"function_library", 0>>)
        \/ T_Baseline(t, <<"function_library", 0>>)
        \/ T_Variants(t, <<"function_library", 0>>)
        \/ T_Store(t, <<"function_library", 0>>)
        \/ T_Publish(t, <<"function_library", 0>>)

SpecThreads == InitThreads /\ [][NextThreads]_vars

\* The arguments a builder calls add_variant with
CtypesStrings == {Str("void(i64*)"), Str("void(i32*)")}
RawSymbols == {Str("_Z8functionPi"), Str("_Z8functionPj")}
VariantArgs ==
    {None, Dict(<< >>),
     Dict(<< [variant |-> "avx2", val |-> Str("_Z8functionPi.avx2")] >>)}

\* A builder calls add_variant and keeps what it returns
AddVariantCall(ctypes_func_string, raw_symbol, baseline, feature_variants) ==
    /\ Len(made) < MaxCalls
    /\ made' = Append(made,
                 [args |-> <<ctypes_func_string, raw_symbol, baseline, feature_variants>>,
                  out |-> Return(add_variant(ctypes_func_string, raw_symbol, baseline,
                                             feature_variants))])
    /\ UNCHANGED <<disk, nextUuid, host, sys_modules, dunder, heap, info, last, tpc, tloc>>

NextBuild ==
    \E c \in CtypesStrings, s \in RawSymbols, f \in VariantArgs :
        AddVariantCall(c, s, Str("baseline"), f)

SpecBuild == Init /\ [][NextBuild]_vars

\* Two libraries, both well formed, in one output directory
NextModules ==
    \/ \E base \in Bases : BuildGeneric(base, {})
    \/ \E n \in Names : Load(n)
    \/ \E via \in Names : Specialize(via, "host", None, TRUE)
    \/ NewProcess

\* the machine of the test run
InitModules == Init /\ host = Features

SpecModules == InitModules /\ [][NextModules]_vars

-----------------------------------------------------------------------------
(* Properties of the load *)

Lib == <<"function_library", 0>>

\* C1: a load ends in SpecializedLoaded, exposing the specialized module's
\* own manifest, exactly when the specialized module could be imported and
\* its uuid equals the uuid of the payload; when it could be imported and the
\* uuid differs, one warning is emitted, the mismatch raises nothing (only a
\* symbol lookup of the generic resolution can), and a load that completes is
\* RevertedToGeneric with the manifest resolved from the module's own payload.
C1_SpecializedIffUuidMatch ==
    \A n \in Names :
        info[n].state # "Unloaded" /\ info[n].cand # "raise" =>
            /\ info[n].state = "SpecializedLoaded"
                  <=> (info[n].cand = "ok" /\ info[n].candUuid = heap[n].uuid)
            /\ info[n].state = "SpecializedLoaded"
                  => dunder[n] = dunder[sbs_name(n)] /\ info[n].warns = 0
            /\ info[n].cand = "ok" /\ info[n].candUuid # heap[n].uuid
                  => /\ info[n].warns = 1
                     /\ info[n].exc \in {"none", "AttributeError"}
                     /\ info[n].exc = "none"
                           => info[n].state = "RevertedToGeneric" /\ dunder[n] = n

\* a load reverted to generic with its warning, over a specialized module that
\* itself loaded its own specialized counterpart
C1_Witness ==
    /\ info[Lib].state = "RevertedToGeneric"
    /\ info[Lib].warns = 1
    /\ info[sbs_name(Lib)].state = "SpecializedLoaded"

\* C2: staleness: the manifest a loaded module exposes carries the uuid of
\* the payload the module was loaded from.
C2_ExposedUuidIsPayloadUuid ==
    \A n \in sys_modules : heap[dunder[n]].uuid = heap[n].uuid

\* after two generic builds, a module exposes a specialized module's manifest
C2_Witness ==
    /\ Lib \in sys_modules
    /\ dunder[Lib] # Lib
    /\ nextUuid > 2

\* C3: the uuid specialize hands to the compiler is the uuid of the manifest
\* the module it was called through exposes at the time of the call.
C3_SpecializeKeepsUuid ==
    last.op = "specialize" => last.uuid = last.manifest_uuid

\* specialize called with an explicit cpu and explicit features through a
\* module that exposes another module's manifest
C3_Witness ==
    /\ last.op = "specialize"
    /\ last.via # last.obj
    /\ last.baseline_cpu = "skylake"
    /\ last.baseline_features # Tuple(<< >>)

\* C4: a call of specialize, whether the compile succeeds or raises, leaves
\* every module's manifest as it was: nothing a loaded module exposes changes.
C4_SpecializeLeavesManifest ==
    [][last'.op = "specialize" => heap' = heap /\ dunder' = dunder]_vars

\* a call of specialize whose compile step raised
C4_Witness ==
    /\ last.op = "specialize"
    /\ ~last.ok
    /\ heap[dunder[last.via]].symbols[1].data.address # None

\* The variant group of a resolved entry as the dispatch design sees it: the
\* baseline, which requires no feature, then the feature variants in insertion
\* order, each requiring the feature it is keyed by.
Group(data) ==
    << [required |-> {}, symbol |-> data.symbol.v] >>
      \o [j \in DOMAIN data.feature_variants.v |->
            [required |-> {data.feature_variants.v[j].variant},
             symbol |-> data.feature_variants.v[j].val.v.symbol.v]]

\* The index of the variant a dispatch by features selects: satisfied by the
\* host, of maximal specificity, the first inserted on a tie.
Best(group, h) ==
    CHOOSE i \in DOMAIN group :
        /\ group[i].required \subseteq h
        /\ \A k \in DOMAIN group :
              group[k].required \subseteq h =>
                  \/ Cardinality(group[k].required) < Cardinality(group[i].required)
                  \/ (Cardinality(group[k].required) = Cardinality(group[i].required)
                        /\ i <= k)

\* The symbols of an entry that the load bound to an address
Bound(data) ==
    {data.symbol.v : x \in {a \in {data.address} : a # None}}
      \cup {data.feature_variants.v[j].val.v.symbol.v : j \in
              {k \in DOMAIN data.feature_variants.v :
                  data.feature_variants.v[k].val.kind = "vdict"}}

\* C5 as claimed: for every variant group of a module resolved from its own
\* payload, the load binds exactly one variant, the best one for the host.
C5_SelectsBestVariant ==
    \A n \in Names :
        dunder[n] = n =>
            \A i \in DOMAIN heap[n].symbols :
                Bound(heap[n].symbols[i].data)
                    = {Group(heap[n].symbols[i].data)
                          [Best(Group(heap[n].symbols[i].data), host)].symbol}

\* C5, amended: the load makes no selection.  Whatever the host's features,
\* every entry of a module resolved from its own payload has its own symbol
\* bound (address and cfunc) in the module's image, and every feature variant
\* of the export table bound under its key, in insertion order, to its own
\* symbol in that image.
C5_BindsEveryVariant ==
    \A n \in Names :
        dunder[n] = n =>
            \A i \in DOMAIN heap[n].symbols :
                /\ heap[n].symbols[i].data.address
                      = [kind |-> "int", v |-> <<n, heap[n].symbols[i].data.symbol.v>>]
                /\ heap[n].symbols[i].data.cfunc.v[2]
                      = <<n, heap[n].symbols[i].data.symbol.v>>
                /\ n[2] = 0 =>
                      /\ heap[n].symbols[i].data.symbol.v = ExportTable(n[1])[i].symbol
                      /\ [j \in DOMAIN heap[n].symbols[i].data.feature_variants.v |->
                            [variant |-> heap[n].symbols[i].data.feature_variants.v[j].variant,
                             symbol |-> heap[n].symbols[i].data.feature_variants.v[j]
                                            .val.v.address.v[2]]]
                            = ExportTable(n[1])[i].variants

\* a library with a feature variant resolved on a host that has the feature
C5_Witness ==
    /\ dunder[Lib] = Lib
    /\ Lib \in sys_modules
    /\ host = Features
    /\ Len(heap[Lib].symbols[1].data.feature_variants.v) = 1

\* C8 as claimed: a successful call of the specialize function a module
\* exposes writes the artifact under that module's name followed by
\* "_pixie_specialized", the name the loader looks up for it.
C8_WritesUnderLoaderName ==
    last.op = "specialize" /\ last.ok => last.library_name = sbs_name(last.via)

\* Every entry of a manifest is resolved, and the manifest is complete
FullyResolved(PIXIE) ==
    /\ PIXIE.bitcode # None
    /\ PIXIE.specialize # None
    /\ \A i \in DOMAIN PIXIE.symbols :
          /\ PIXIE.symbols[i].data.ctypes_cfunctype.kind = "CFUNCTYPE"
          /\ PIXIE.symbols[i].data.address # None
          /\ PIXIE.symbols[i].data.cfunc # None
          /\ \A j \in DOMAIN PIXIE.symbols[i].data.feature_variants.v :
                PIXIE.symbols[i].data.feature_variants.v[j].val.kind = "vdict"

\* C9: a load in which a symbol lookup failed (its own, or that of the
\* specialized module it imports) aborted and published nothing: the module
\* is not imported and has no __PIXIE__; and what any module exposes is a
\* fully resolved manifest.
C9_FailedLoadPublishesNothing ==
    \A n \in Names :
        /\ info[n].exc # "none" =>
              /\ info[n].state = "Aborted"
              /\ n \notin sys_modules
              /\ dunder[n] = NoAttr
        /\ dunder[n] # NoAttr => FullyResolved(heap[dunder[n]])

\* a load that failed on a later lookup, after it had bound an earlier entry
C9_Witness ==
    /\ info[Lib].exc = "AttributeError"
    /\ heap[Lib].symbols[1].data.address # None
    /\ heap[Lib].symbols[2].data.address = None

Other == <<"optimise_library", 0>>

\* The (python name, signature) pairs a manifest exports
Exported(PIXIE) == {<<PIXIE.symbols[i].pysym, PIXIE.symbols[i].sig>> : i \in DOMAIN PIXIE.symbols}

\* what the export table of a library exports
TableExports(base) ==
    {<<ExportTable(base)[i].pysym, ExportTable(base)[i].sig>> : i \in DOMAIN ExportTable(base)}

\* every binding of the manifest points into an image of library `base`
BoundIn(PIXIE, base) ==
    \A i \in DOMAIN PIXIE.symbols : PIXIE.symbols[i].data.address.v[1][1] = base

\* C10: with two well-formed libraries in one process, loaded in any order,
\* every load completes; each loaded module exposes a fully resolved manifest
\* with exactly the exports of its own library, bound in its own library's
\* image; and a load of one library changes neither the __PIXIE__ reference
\* nor the payload of any module of the other library.
C10_ModulesIndependent ==
    /\ [](\A n \in Names :
            /\ info[n].exc = "none"
            /\ n \in sys_modules =>
                  /\ FullyResolved(heap[dunder[n]])
                  /\ Exported(heap[dunder[n]]) = TableExports(n[1])
                  /\ BoundIn(heap[dunder[n]], n[1]))
    /\ [][\A n \in Names :
            n \in sys_modules' \ sys_modules =>
                \A m \in Names :
                    m[1] # n[1] => dunder'[m] = dunder[m] /\ heap'[m] = heap[m]]_vars

\* both libraries loaded in one process
C10_Witness ==
    /\ Lib \in sys_modules
    /\ Other \in sys_modules
    /\ dunder[Lib] = Lib
    /\ dunder[Other] = Other

\* C6 as claimed: of two add_variant calls with identical arguments, the
\* second fails with DuplicateVariantError.
C6_DuplicateRejected ==
    \A i \in DOMAIN made : \A j \in DOMAIN made :
        i < j /\ made[i].args = made[j].args
            => made[j].out.exc = "DuplicateVariantError"

\* C6, amended: add_variant never fails and keeps nothing of earlier calls.
\* Every call, a repeated one included, returns a record with the given
\* binding string, symbol and baseline, address and cfunc None, and the
\* given feature variants (an empty dict when none were given).
C6_AddVariantAlwaysReturns ==
    \A j \in DOMAIN made :
        /\ made[j].out.exc = "none"
        /\ made[j].out.v.ctypes_cfunctype = made[j].args[1]
        /\ made[j].out.v.symbol = made[j].args[2]
        /\ made[j].out.v.baseline_feature = made[j].args[3]
        /\ made[j].out.v.address = None
        /\ made[j].out.v.cfunc = None
        /\ made[j].out.v.feature_variants
              = (IF made[j].args[4] = None THEN Dict(<< >>) ELSE made[j].args[4])

\* add_variant called twice with identical arguments
C6_Witness ==
    /\ Len(made) >= 2
    /\ made[1].args = made[2].args
    /\ made[1].out = made[2].out

Precedes(steps, a, b) ==
    \E i \in DOMAIN steps : \E j \in DOMAIN steps :
        i < j /\ steps[i] = a /\ steps[j] = b

Ran(steps, a) == \E i \in DOMAIN steps : steps[i] = a

\* No entry of a payload was touched by a resolution
Unresolved(PIXIE) ==
    /\ PIXIE.bitcode = None
    /\ PIXIE.specialize = None
    /\ \A i \in DOMAIN PIXIE.symbols :
          /\ PIXIE.symbols[i].data.ctypes_cfunctype.kind = "str"
          /\ PIXIE.symbols[i].data.address = None
          /\ PIXIE.symbols[i].data.cfunc = None

\* C11 as claimed: in every load the module's own image is opened and its
\* symbols are resolved before the specialized counterpart is looked for.
C11_ResolvedBeforeCandidate ==
    \A n \in Names :
        info[n].state # "Unloaded" =>
            /\ Precedes(info[n].steps, "CDLL", "import_module")
            /\ Precedes(info[n].steps, "resolve", "import_module")

\* C11, amended: in every load the specialized counterpart is looked for
\* first: the import of <name>_pixie_specialized and the uuid comparison run
\* before the module's own image is opened.  The image is opened and the
\* payload resolved only when no specialized module was found or its uuid
\* differs, and then the load ends Resolved or RevertedToGeneric (or aborts);
\* a load that ends SpecializedLoaded never opens the module's own image and
\* leaves the module's own payload unresolved.
C11_CandidateBeforeGeneric ==
    \A n \in Names :
        info[n].state # "Unloaded" =>
            /\ info[n].steps[1] = "import_module"
            /\ ~Precedes(info[n].steps, "CDLL", "uuid_check")
            /\ Ran(info[n].steps, "CDLL")
                  <=> (info[n].cand = "absent"
                         \/ (info[n].cand = "ok" /\ info[n].candUuid # heap[n].uuid))
            /\ Ran(info[n].steps, "CDLL") => Precedes(info[n].steps, "CDLL", "resolve")
            /\ info[n].state \in {"Resolved", "RevertedToGeneric"}
                  => Ran(info[n].steps, "publish") /\ FullyResolved(heap[n])
            /\ info[n].state = "SpecializedLoaded"
                  => /\ ~Ran(info[n].steps, "CDLL")
                     /\ ~Ran(info[n].steps, "resolve")
                     /\ Unresolved(heap[n])

\* a module loaded through its specialized counterpart, its own payload
\* untouched, while the counterpart was resolved
C11_Witness ==
    /\ Lib \in sys_modules
    /\ info[Lib].state = "SpecializedLoaded"
    /\ heap[Lib].symbols[1].data.address = None
    /\ info[sbs_name(Lib)].state = "Resolved"
    /\ heap[sbs_name(Lib)].symbols[1].data.address # None

\* The (python name, signature, compiled symbol) triples of a manifest
ManifestTriples(PIXIE) ==
    {<<PIXIE.symbols[i].pysym, PIXIE.symbols[i].sig, PIXIE.symbols[i].data.symbol.v>> :
        i \in DOMAIN PIXIE.symbols}

\* The triples of an export table handed to the compiler
TableTriples(table) ==
    {<<table[i].pysym, table[i].sig, table[i].symbol>> : i \in DOMAIN table}

\* The symbol names lines 134 and 144 look up when the payload is loaded
LookedUp(PIXIE) ==
    {PIXIE.symbols[i].data.symbol.v : i \in DOMAIN PIXIE.symbols}
      \cup UNION {{PIXIE.symbols[i].data.feature_variants.v[j].val.v :
                      j \in DOMAIN PIXIE.symbols[i].data.feature_variants.v} :
                   i \in DOMAIN PIXIE.symbols}

\* C12: the export table specialize hands to the compiler has one entry for
\* every (python name, signature) pair of the manifest it was called through
\* and no other, each with the manifest entry's compiled symbol; and every
\* symbol the loader looks up for the artifact compiled from that table is a
\* symbol of the table, exported by the artifact's image.
C12_TableIsManifestExports ==
    last.op = "specialize" =>
        /\ TableTriples(last.table) = ManifestTriples(heap[dunder[last.via]])
        /\ Len(last.table) = Len(heap[dunder[last.via]].symbols)
        /\ Cardinality({<<last.table[i].pysym, last.table[i].sig>> :
                           i \in DOMAIN last.table}) = Len(last.table)
        /\ last.ok =>
              /\ LookedUp(disk[last.library_name].payload) \subseteq TableSymbols(last.table)
              /\ LookedUp(disk[last.library_name].payload)
                    \subseteq disk[last.library_name].image.syms

\* specialize compiled a table of two overloads of one python name, from a
\* manifest whose first entry also has a feature variant
C12_Witness ==
    /\ last.op = "specialize"
    /\ last.ok
    /\ Len(last.table) = 2
    /\ last.table[1].pysym = last.table[2].pysym
    /\ Len(heap[dunder[last.via]].symbols[1].data.feature_variants.v) = 1

\* The flags of a features argument
FlagsOf(features) == {features.v[i] : i \in DOMAIN features.v}

\* C13 as claimed: the target cpu is the host's cpu for 'host' and the
\* argument otherwise; features that are given are used as they are; features
\* that are not given are resolved from the target, for 'host' by detecting
\* the host's features.
C13_FeaturesResolvedFromTarget ==
    last.op = "specialize" =>
        /\ last.baseline_cpu = (IF last.args[1] = "host" THEN get_host_cpu_name
                                ELSE last.args[1])
        /\ last.args[2] # None => last.baseline_features = last.args[2]
        /\ last.args[2] = None /\ last.args[1] = "host"
              => FlagsOf(last.baseline_features) = host

\* C13, amended: the target cpu is the host's cpu name for 'host' and the
\* argument otherwise; features that are given are handed to the compiler as
\* they are; when none are given the compiler is handed the empty tuple,
\* whatever the target cpu and whatever features the host has.
C13_FeaturesDefaultEmpty ==
    last.op = "specialize" =>
        /\ last.baseline_cpu = (IF last.args[1] = "host" THEN get_host_cpu_name
                                ELSE last.args[1])
        /\ last.args[2] # None => last.baseline_features = last.args[2]
        /\ last.args[2] = None => last.baseline_features = Tuple(<< >>)

\* specialize called for 'host' with no features on a machine that has
\* features
C13_Witness ==
    /\ last.op = "specialize"
    /\ last.args = <<"host", None>>
    /\ host = Features
    /\ last.baseline_features = Tuple(<< >>)

\* C14 as claimed: the manifest of an artifact that specialize produced has
\* is_specialized true; the manifest a loaded module exposes has
\* is_specialized true exactly when the module's load ended SpecializedLoaded,
\* so false after every generic-path load; a fresh base payload has it false.
C14_FlagTrueIffSpecializedLoaded ==
    /\ ~create_base_payload.is_specialized
    /\ last.op = "specialize" /\ last.ok
          => disk[last.library_name].payload.is_specialized
    /\ \A n \in sys_modules :
          heap[dunder[n]].is_specialized <=> info[n].state = "SpecializedLoaded"

\* The keys of a feature_variants dict, in insertion order
Keys(feature_variants) ==
    [j \in DOMAIN feature_variants.v |-> feature_variants.v[j].variant]

\* What the load made of one add_variant record
ResolvedFrom(before, after) ==
    /\ after.symbol = before.symbol
    /\ after.address.kind = "int"
    /\ after.cfunc.kind = "cfunc"
    /\ after.address.v[2] = before.symbol.v
    /\ Keys(after.feature_variants) = Keys(before.feature_variants)
    /\ \A j \in DOMAIN after.feature_variants.v :
          /\ after.feature_variants.v[j].val.kind = "vdict"
          /\ after.feature_variants.v[j].val.v.symbol = before.feature_variants.v[j].val
          /\ after.feature_variants.v[j].val.v.address.kind = "fptr"
          /\ after.feature_variants.v[j].val.v.address.v[2]
                = before.feature_variants.v[j].val.v
          /\ after.feature_variants.v[j].val.v.cfunc.kind = "cfunc"

\* C15: every record of a packaged payload, built by add_variant, has address
\* and cfunc None; and a load that publishes the module's own payload leaves
\* every entry with its baseline address and cfunc set, its feature_variants
\* with the same keys as before the load, each mapped to a record of the
\* original symbol name, its address and its cfunc, and the manifest with the
\* bitcode and a specialize function.
C15_LoadResolvesEveryEntry ==
    /\ [](\A n \in Names :
            Exists(n) =>
                \A i \in DOMAIN disk[n].payload.symbols :
                    /\ disk[n].payload.symbols[i].data.address = None
                    /\ disk[n].payload.symbols[i].data.cfunc = None)
    /\ [][\A n \in Names :
            dunder[n] # n /\ dunder'[n] = n =>
                /\ heap'[n].bitcode.kind = "bytes"
                /\ heap'[n].specialize.kind = "closure"
                /\ DOMAIN heap'[n].symbols = DOMAIN disk[n].payload.symbols
                /\ \A i \in DOMAIN heap'[n].symbols :
                      ResolvedFrom(disk[n].payload.symbols[i].data,
                                   heap'[n].symbols[i].data)]_vars

\* a module resolved from its own payload, whose first entry has a feature
\* variant bound, while the packaged record is still unresolved
C15_Witness ==
    /\ Lib \in sys_modules
    /\ dunder[Lib] = Lib
    /\ heap[Lib].symbols[1].data.feature_variants.v[1].val.kind = "vdict"
    /\ heap[Lib].symbols[1].data.cfunc # None
    /\ disk[Lib].payload.symbols[1].data.cfunc = None
    /\ disk[Lib].payload.symbols[1].data.feature_variants.v[1].val.kind = "str"

\* C16 as claimed: a manifest is modified by its own load only.  Two loaded
\* modules never expose the same manifest object, and a step in which a
\* module is loaded leaves the manifest of every module that was loaded
\* before it as it was, in particular that of a specialized module the new
\* module adopts.
C16_AdoptionLeavesSpecializedManifest ==
    /\ [](\A n \in sys_modules : \A m \in sys_modules :
            n # m => dunder[n] # dunder[m])
    /\ [][\A m \in sys_modules :
            m \in sys_modules' /\ sys_modules' # sys_modules
                => dunder'[m] = dunder[m] /\ heap'[dunder[m]] = heap[dunder[m]]]_vars

\* Thread t ran the generic path of main to its end
Completed(t) == tpc[t] = "done" /\ tloc[t] # None

\* Every record of the payload was rewritten in place
Consumed(PIXIE) ==
    \A i \in DOMAIN PIXIE.symbols :
        /\ PIXIE.symbols[i].data.ctypes_cfunctype.kind = "CFUNCTYPE"
        /\ \A j \in DOMAIN PIXIE.symbols[i].data.feature_variants.v :
              PIXIE.symbols[i].data.feature_variants.v[j].val.kind = "vdict"

====
